---- MODULE Spec2Model ----
(***************************************************************************)
(* Model of backend/main.py: the waste-classification service.  Module     *)
(* import (credential, static mounts, CLIP load) is the startup phase;     *)
(* GET /, GET /health and POST /classify are the handlers.  Text values    *)
(* are sequences of string fragments, and category codes are sequences of  *)
(* characters so that str.upper() and str.startswith() are computed.       *)
(***************************************************************************)
EXTENDS Integers, Sequences, FiniteSets, TLC

\* Number of POST /classify requests the model submits.
NumRequests == 2

Req == 1..NumRequests

\* No task holds the event loop.
NoTask == 0

\* ------------------------------------------------------------------ text
\* Python's None, for the values that are plain strings in the model.
None == "None"

\* The environment values os.getenv("GEMINI_API_KEY") can return.
EnvKeys == {None, "", "secret-key"}

UpperChar(c) ==
    CASE c = "d" -> "D" [] c = "r" -> "R" [] c = "y" -> "Y"
      [] c = "w" -> "W" [] c = "e" -> "E" [] c = "t" -> "T"
      [] c = "a" -> "A" [] c = "s" -> "S" [] c = "h" -> "H"
      [] c = "z" -> "Z" [] c = "o" -> "O" [] c = "u" -> "U"
      [] OTHER -> c

\* str.upper()
Upper(s) == [i \in 1..Len(s) |-> UpperChar(s[i])]

\* A prefix test that forgets the last character of the prefix.
StartsWithShort(s, prefix) ==
    /\ Len(s) >= Len(prefix) - 1
    /\ SubSeq(s, 1, Len(prefix) - 1) = SubSeq(prefix, 1, Len(prefix) - 1)

\* str.startswith(prefix)
StartsWith(s, prefix) ==
    /\ Len(s) >= Len(prefix)
    /\ SubSeq(s, 1, Len(prefix)) = prefix

ImagePrefix == <<"i", "m", "a", "g", "e", "/">>

\* UploadFile.content_type: a header value, or None when the part has none.
NoContentType == [none |-> TRUE, s |-> <<>>]
ContentType(s) == [none |-> FALSE, s |-> s]

ImagePng == ContentType(<<"i", "m", "a", "g", "e", "/", "p", "n", "g">>)
TextPlain == ContentType(<<"t", "e", "x", "t", "/", "p", "l", "a", "i", "n">>)
ImageNoSlash == ContentType(<<"i", "m", "a", "g", "e">>)
EmptyType == ContentType(<<>>)

\* The content types the model uploads.
ContentTypes == {NoContentType, ImagePng, TextPlain, ImageNoSlash, EmptyType}

\* ------------------------------------------------------------ categories
DryDesc == "dry recyclable waste such as plastic bottles paper cardboard metal cans glass containers"
WetDesc == "wet organic biodegradable waste such as food scraps fruit peels vegetable waste leaves"
EDesc == "electronic waste such as mobile phones laptops computers batteries chargers cables"
HazDesc == "hazardous waste such as medicines chemicals light bulbs batteries syringes"

WASTE_CATEGORIES == <<DryDesc, WetDesc, EDesc, HazDesc>>

Dry == <<"d", "r", "y">>
Wet == <<"w", "e", "t">>
EWaste == <<"e", "-", "w", "a", "s", "t", "e">>
Hazardous == <<"h", "a", "z", "a", "r", "d", "o", "u", "s">>

\* The mapping with the codes of the first two descriptions exchanged.
CATEGORY_MAPPING_SWAPPED ==
    (DryDesc :> Wet) @@ (WetDesc :> Dry) @@ (EDesc :> EWaste) @@ (HazDesc :> Hazardous)

\* Lines 69-74.
CATEGORY_MAPPING ==
    (DryDesc :> Dry) @@ (WetDesc :> Wet) @@ (EDesc :> EWaste) @@ (HazDesc :> Hazardous)

\* Lines 76-101; the emoji and Devanagari of the display strings are written
\* in ASCII.
DUSTBIN_INFO ==
    (Dry :> [color |-> "BLUE", hindi |-> "sookha kachra", bin |-> "Blue Dustbin",
             examples |-> "Plastic bottles, paper, cardboard, glass"])
 @@ (Wet :> [color |-> "GREEN", hindi |-> "geela kachra", bin |-> "Green Dustbin",
             examples |-> "Food waste, fruit peels, vegetables, leaves"])
 @@ (EWaste :> [color |-> "BLACK/GREY", hindi |-> "electronic kachra",
                bin |-> "E-waste Collection Center",
                examples |-> "Phones, laptops, batteries, chargers"])
 @@ (Hazardous :> [color |-> "RED", hindi |-> "khatarnak kachra",
                   bin |-> "Hazardous Waste Bin",
                   examples |-> "Medicines, chemicals, bulbs, batteries"])

VARIABLES
    environ,         \* what the process finds installed: environment, files, pipeline
    phase,           \* "import" | "configured" | "mounted" | "serving" | "aborted"
    GEMINI_API_KEY,  \* module global, line 13
    classifier,      \* module global, line 41
    running,         \* the request task that holds the event loop, or NoTask
    req,             \* per-request handler state
    lastGet          \* the response of the latest GET / or GET /health

vars == <<environ, phase, GEMINI_API_KEY, classifier, running, req, lastGet>>

\* ------------------------------------------------------------ classifier
\* A description no candidate label carries.
UnknownDesc == "mixed waste"

\* Scores in thousandths, descending: a clear winner, and a four-way tie.
Distinct == <<700, 200, 70, 30>>
Tied == <<250, 250, 250, 250>>

Rankings(labels) ==
    { p \in [1..Len(labels) -> {labels[i] : i \in 1..Len(labels)}] :
        \A i, j \in 1..Len(labels) : i # j => p[i] # p[j] }

Zip(p, sc) == [i \in 1..Len(p) |-> [label |-> p[i], score |-> sc[i]]]

\* What the zero-shot pipeline returns for the candidate labels: every
\* candidate once, sorted by descending score.
ClosedSetResults(labels) ==
    { Zip(p, Distinct) : p \in Rankings(labels) } \cup { Zip(labels, Tied) }

\* Results that break the closed-set contract: a foreign description at
\* one rank, or no entry at all.
OpenSetResults(labels) ==
    { [Zip(labels, Distinct) EXCEPT ![k].label = UnknownDesc] :
        k \in 1..Len(labels) }
      \cup { <<>> }

\* classifier(image, candidate_labels=labels), line 176: a result or an
\* exception.  closed_set tells whether the installed pipeline keeps the
\* closed-set contract.
ClassifierOutcomes(labels, closed_set) ==
    { [kind |-> "returns", result |-> res] :
        res \in ClosedSetResults(labels)
                  \cup (IF closed_set THEN {} ELSE OpenSetResults(labels)) }
      \cup { [kind |-> "raises", result |-> <<>>] }

\* -------------------------------------------------------------- guidance
\* gemini_model.generate_content(prompt) and response.text, lines 123-124.
GeminiOutcomes ==
    { [kind |-> "ok", text |-> <<"**WHY ... **HOW ... **ECO TIP ...">>],
      [kind |-> "generate_content raises", text |-> <<"deadline exceeded">>],
      [kind |-> "response.text raises", text |-> <<"response has no valid part">>] }

\* The except branch of get_waste_guidance, lines 127-139.
FallbackGuidance(category) ==
    <<"\n**WHY this is ">> \o Upper(category) \o <<" waste:**\nThis item is classified as ">>
      \o category \o <<" waste based on its material composition and decomposition properties.\n\n**HOW to dispose safely:**\n* Separate this waste from other types\n* Place it in the designated ">>
      \o category \o <<" waste bin\n* Follow local waste management guidelines\n* Contact your municipal corporation for collection schedule\n\n**ECO TIP:**\nRemember: Proper segregation at source makes recycling more effective and helps protect our environment!\n">>

\* The try block closed after generate_content: a failure of response.text
\* escapes the call.
get_waste_guidance_text_unguarded(category, detected_object, gemini) ==
    IF gemini.kind = "ok"
    THEN [raised |-> FALSE, text |-> gemini.text]
    ELSE IF gemini.kind = "response.text raises"
    THEN [raised |-> TRUE, text |-> gemini.text]
    ELSE [raised |-> FALSE, text |-> FallbackGuidance(category)]

\* Lines 103-139: what the call gives its caller, a returned text or an
\* exception that escapes it.
get_waste_guidance(category, detected_object, gemini) ==
    IF gemini.kind = "ok"
    THEN [raised |-> FALSE, text |-> gemini.text]
    ELSE [raised |-> FALSE, text |-> FallbackGuidance(category)]

\* ------------------------------------------------------------- responses
NoBody ==
    [success |-> FALSE, detected_object |-> <<>>, confidence |-> <<0, 0>>,
     waste_category |-> <<>>,
     dustbin |-> [color |-> "", type |-> "", hindi_name |-> ""],
     examples |-> "", ai_guidance |-> <<>>, all_predictions |-> <<>>]

NoResponse == [status |-> 0, by |-> "none", detail |-> <<>>, body |-> NoBody]

\* raise HTTPException(status, detail) leaving the handler.
HTTPException(status, detail) ==
    [status |-> status, by |-> "handler", detail |-> detail, body |-> NoBody]

\* An exception that leaves the handler: the framework answers for it.
Unhandled == [status |-> 500, by |-> "framework",
              detail |-> <<"Internal Server Error">>, body |-> NoBody]

\* f"{score*100:.1f}%" of a score in thousandths: whole part and tenth.
Percent(score) == <<score \div 10, score % 10>>

\* str(KeyError(key))
KeyErrorStr(key) == <<"'", key, "'">>

\* The response dict, lines 185-204.
ResponseBody(category, best_score, guidance, predictions) ==
    [success |-> TRUE,
     detected_object |-> Upper(category) \o <<" waste detected">>,
     confidence |-> Percent(best_score),
     waste_category |-> Upper(category),
     dustbin |-> [color |-> DUSTBIN_INFO[category].color,
                  type |-> DUSTBIN_INFO[category].bin,
                  hindi_name |-> DUSTBIN_INFO[category].hindi],
     examples |-> DUSTBIN_INFO[category].examples,
     ai_guidance |-> guidance,
     all_predictions |->
        [i \in 1..Len(predictions) |->
            [label |-> Upper(CATEGORY_MAPPING[predictions[i].label]) \o <<" WASTE">>,
             score |-> Percent(predictions[i].score)]]]

\* A health report that takes the model for loaded.
health_check_always_loaded(clf, key) ==
    [status |-> "healthy", clip_model |-> TRUE, gemini_api |-> key # None]

\* Lines 150-156: the JSON body of GET /health.
health_check(clf, key) ==
    [status |-> "healthy", clip_model |-> clf # None, gemini_api |-> key # None]

\* --------------------------------------------------------------- startup
IdleRequest ==
    [pc |-> "idle", content_type |-> NoContentType, reads |-> 0,
     image |-> "none", classifierCalls |-> 0, predictions |-> <<>>,
     category |-> <<>>, guidanceCalls |-> 0, gemini |-> "not called",
     guidance |-> <<>>,
     response |-> NoResponse]

Init ==
    /\ environ \in [GEMINI_API_KEY : EnvKeys, frontend_dir : BOOLEAN,
                    closed_set : {TRUE}]
    /\ phase = "import"
    /\ GEMINI_API_KEY = None
    /\ classifier = None
    /\ running = NoTask
    /\ req = [r \in Req |-> IdleRequest]
    /\ lastGet = [route |-> "none"]

\* The credential check left out.
CredentialNeverMissing(key) == FALSE

\* "if not GEMINI_API_KEY", line 14
CredentialMissing(key) == key = None \/ key = ""

\* Lines 13-18: read the credential, refuse to start without it.
Configure ==
    /\ phase = "import"
    /\ GEMINI_API_KEY' = environ.GEMINI_API_KEY
    /\ phase' = IF CredentialMissing(environ.GEMINI_API_KEY)
                THEN "aborted" ELSE "configured"
    /\ UNCHANGED <<environ, classifier, running, req, lastGet>>

\* Lines 28-29: StaticFiles(directory=...) raises when the directory is absent.
MountStatic ==
    /\ phase = "configured"
    /\ phase' = IF environ.frontend_dir THEN "mounted" ELSE "aborted"
    /\ UNCHANGED <<environ, GEMINI_API_KEY, classifier, running, req, lastGet>>

\* Lines 43-56: the handle after load_clip_model, given whether pipeline()
\* returned or raised.
load_clip_model(clf, pipeline_ok) == IF pipeline_ok THEN "pipeline" ELSE clf

\* Line 59 and the end of the import: the application starts serving.
LoadClipModel ==
    /\ phase = "mounted"
    /\ \E pipeline_ok \in BOOLEAN :
          classifier' = load_clip_model(classifier, pipeline_ok)
    /\ phase' = "serving"
    /\ UNCHANGED <<environ, GEMINI_API_KEY, running, req, lastGet>>

\* ------------------------------------------------------------ GET routes
\* Lines 141-148: index.html, or the fallback text when it cannot be read.
Home ==
    /\ phase = "serving"
    /\ running = NoTask
    /\ \E index_readable \in BOOLEAN :
          lastGet' = [route |-> "/", status |-> 200,
                      content |-> IF index_readable THEN "index.html"
                                  ELSE "Frontend not found. Use /docs for API."]
    /\ UNCHANGED <<environ, phase, GEMINI_API_KEY, classifier, running, req>>

\* Lines 150-156.
Health ==
    /\ phase = "serving"
    /\ running = NoTask
    /\ lastGet' = [route |-> "/health", status |-> 200,
                   content |-> health_check(classifier, GEMINI_API_KEY)]
    /\ UNCHANGED <<environ, phase, GEMINI_API_KEY, classifier, running, req>>

\* --------------------------------------------------------- POST /classify
\* A multipart upload arrives and its handler task is created.
Submit(r) ==
    /\ phase = "serving"
    /\ req[r].pc = "idle"
    /\ \E ct \in ContentTypes :
          req' = [req EXCEPT ![r].pc = "content_type", ![r].content_type = ct]
    /\ UNCHANGED <<environ, phase, GEMINI_API_KEY, classifier, running, lastGet>>

\* The handler returns or raises: the request ends with this response.
Finish(r, response) ==
    /\ req' = [req EXCEPT ![r].pc = "done", ![r].response = response]
    /\ running' = r

\* The response has left, the task is over and the event loop is free; the
\* process keeps nothing of the request.
Close(r) ==
    /\ req[r].pc = "done"
    /\ running = r
    /\ req' = [req EXCEPT ![r] = IdleRequest]
    /\ running' = NoTask
    /\ UNCHANGED <<environ, phase, GEMINI_API_KEY, classifier, lastGet>>

\* The except clause, lines 208-210.
ClassificationFailed(msg) == HTTPException(500, <<"Classification failed: ">> \o msg)

\* Lines 161-162, outside the try block.
CheckContentType(r) ==
    /\ req[r].pc = "content_type"
    /\ running = NoTask
    /\ IF req[r].content_type.none
       THEN \* None.startswith: AttributeError, raised outside the try block
            Finish(r, Unhandled)
       ELSE IF ~StartsWith(req[r].content_type.s, ImagePrefix)
       THEN Finish(r, HTTPException(400, <<"Only image files allowed">>))
       ELSE /\ req' = [req EXCEPT ![r].pc = "model"]
            /\ running' = r
    /\ UNCHANGED <<environ, phase, GEMINI_API_KEY, classifier, lastGet>>

\* The model check left out: the handler goes on to read the payload.
CheckModelSkipped(r) ==
    /\ req[r].pc = "model"
    /\ running = r
    /\ req' = [req EXCEPT ![r].pc = "read"]
    /\ running' = NoTask
    /\ UNCHANGED <<environ, phase, GEMINI_API_KEY, classifier, lastGet>>

\* A handler that loads the model itself when it finds none.
CheckModelLazyLoad(r) ==
    /\ req[r].pc = "model"
    /\ running = r
    /\ classifier' = "pipeline"
    /\ req' = [req EXCEPT ![r].pc = "read"]
    /\ running' = NoTask
    /\ UNCHANGED <<environ, phase, GEMINI_API_KEY, lastGet>>

\* Lines 164-165; on success the task reaches "await file.read()".
CheckModel(r) ==
    /\ req[r].pc = "model"
    /\ running = r
    /\ IF classifier = None
       THEN Finish(r, HTTPException(500, <<"Model not loaded. Please wait.">>))
       ELSE /\ req' = [req EXCEPT ![r].pc = "read"]
            /\ running' = NoTask
    /\ UNCHANGED <<environ, phase, GEMINI_API_KEY, classifier, lastGet>>

\* Line 168: the await resumes with the payload, or with an exception.
ReadPayload(r) ==
    /\ req[r].pc = "read"
    /\ running = NoTask
    /\ \E ok \in BOOLEAN :
          IF ok
          THEN /\ req' = [req EXCEPT ![r].pc = "open", ![r].reads = @ + 1]
               /\ running' = r
          ELSE Finish(r, ClassificationFailed(<<"read failed">>))
    /\ UNCHANGED <<environ, phase, GEMINI_API_KEY, classifier, lastGet>>

\* What Image.open and convert can do with the payload.
DecodeOutcomes == {"RGB", "RGBA", "L", "open raises", "convert raises"}

\* Lines 169-174.
OpenImage(r) ==
    /\ req[r].pc = "open"
    /\ running = r
    /\ \E d \in DecodeOutcomes :
          IF d = "open raises"
          THEN Finish(r, ClassificationFailed(<<"cannot identify image file">>))
          ELSE IF d = "convert raises"
          THEN Finish(r, ClassificationFailed(<<"image file is truncated">>))
          ELSE /\ req' = [req EXCEPT ![r].pc = "classify", ![r].image = "RGB"]
               /\ running' = r
    /\ UNCHANGED <<environ, phase, GEMINI_API_KEY, classifier, lastGet>>

\* Lines 176-180: classify, take the top entry, map its label.
Classify(r) ==
    /\ req[r].pc = "classify"
    /\ running = r
    /\ \E out \in ClassifierOutcomes(WASTE_CATEGORIES, environ.closed_set) :
          LET called == [req EXCEPT ![r].classifierCalls = @ + 1,
                                    ![r].predictions = out.result]
              fail(msg) ==
                 /\ req' = [called EXCEPT ![r].pc = "done",
                                          ![r].response = ClassificationFailed(msg)]
                 /\ running' = r
          IN  IF out.kind = "raises"
              THEN fail(<<"classifier error">>)
              ELSE IF Len(out.result) = 0
              THEN fail(<<"list index out of range">>)
              ELSE IF out.result[1].label \notin DOMAIN CATEGORY_MAPPING
              THEN fail(KeyErrorStr(out.result[1].label))
              ELSE /\ req' = [called EXCEPT
                                ![r].pc = "guidance",
                                ![r].category = CATEGORY_MAPPING[out.result[1].label]]
                   /\ running' = r
    /\ UNCHANGED <<environ, phase, GEMINI_API_KEY, classifier, lastGet>>

\* A guidance step that calls the text service once more after a failure.
GuideWithRetry(r) ==
    /\ req[r].pc = "guidance"
    /\ running = r
    /\ \E gemini \in GeminiOutcomes :
          LET got == get_waste_guidance(req[r].category,
                                        req[r].predictions[1].label, gemini)
              called == [req EXCEPT ![r].guidanceCalls = @ + 1,
                                    ![r].gemini = gemini.kind]
          IN  IF gemini.kind # "ok" /\ req[r].guidanceCalls = 0
              THEN req' = called
              ELSE req' = [called EXCEPT ![r].pc = "assemble",
                                         ![r].guidance = got.text]
    /\ UNCHANGED <<environ, phase, GEMINI_API_KEY, classifier, running, lastGet>>

\* Line 183.
Guide(r) ==
    /\ req[r].pc = "guidance"
    /\ running = r
    /\ \E gemini \in GeminiOutcomes :
          LET got == get_waste_guidance(req[r].category,
                                        req[r].predictions[1].label, gemini)
              called == [req EXCEPT ![r].guidanceCalls = @ + 1,
                                    ![r].gemini = gemini.kind]
          IN  IF got.raised
              THEN req' = [called EXCEPT ![r].pc = "done",
                                         ![r].response = ClassificationFailed(got.text)]
              ELSE req' = [called EXCEPT ![r].pc = "assemble",
                                         ![r].guidance = got.text]
    /\ UNCHANGED <<environ, phase, GEMINI_API_KEY, classifier, running, lastGet>>

\* The ranks whose label CATEGORY_MAPPING does not know.
UnmappedRanks(predictions) ==
    { i \in 1..Len(predictions) : predictions[i].label \notin DOMAIN CATEGORY_MAPPING }

Min(S) == CHOOSE x \in S : \A y \in S : x <= y

\* An assembly that leaves out the predictions whose label it does not know.
AssembleSkipUnknown(r) ==
    /\ req[r].pc = "assemble"
    /\ running = r
    /\ LET preds == req[r].predictions
           known(p) == p.label \in DOMAIN CATEGORY_MAPPING
       IN  Finish(r, [status |-> 200, by |-> "handler", detail |-> <<>>,
                      body |-> ResponseBody(req[r].category, preds[1].score,
                                            req[r].guidance, SelectSeq(preds, known))])
    /\ UNCHANGED <<environ, phase, GEMINI_API_KEY, classifier, lastGet>>

\* Lines 185-206: build the response; the comprehension of line 199 raises
\* KeyError at the first label the mapping does not know.
Assemble(r) ==
    /\ req[r].pc = "assemble"
    /\ running = r
    /\ LET preds == req[r].predictions
       IN  IF UnmappedRanks(preds) # {}
           THEN Finish(r, ClassificationFailed(
                            KeyErrorStr(preds[Min(UnmappedRanks(preds))].label)))
           ELSE Finish(r, [status |-> 200, by |-> "handler", detail |-> <<>>,
                           body |-> ResponseBody(req[r].category, preds[1].score,
                                                 req[r].guidance, preds)])
    /\ UNCHANGED <<environ, phase, GEMINI_API_KEY, classifier, lastGet>>

Next ==
    \/ Configure
    \/ MountStatic
    \/ LoadClipModel
    \/ Home
    \/ Health
    \/ \E r \in Req : Submit(r)
    \/ \E r \in Req : CheckContentType(r)
    \/ \E r \in Req : CheckModel(r)
    \/ \E r \in Req : ReadPayload(r)
    \/ \E r \in Req : OpenImage(r)
    \/ \E r \in Req : Classify(r)
    \/ \E r \in Req : Guide(r)
    \/ \E r \in Req : Assemble(r)
    \/ \E r \in Req : Close(r)

Spec == Init /\ [][Next]_vars

\* The same service over a pipeline that may break the closed-set contract.
InitOpen ==
    /\ environ \in [GEMINI_API_KEY : EnvKeys, frontend_dir : BOOLEAN,
                    closed_set : {FALSE}]
    /\ phase = "import"
    /\ GEMINI_API_KEY = None
    /\ classifier = None
    /\ running = NoTask
    /\ req = [r \in Req |-> IdleRequest]
    /\ lastGet = [route |-> "none"]

SpecOpen == InitOpen /\ [][Next]_vars

\* The state of section 4.4 that a handler position stands for.
State(rq) ==
    CASE rq.pc = "idle" -> "none"
      [] rq.pc = "content_type" -> "received"
      [] rq.pc \in {"model", "read", "open"} -> "validated"
      [] rq.pc = "classify" -> "decoded"
      [] rq.pc = "guidance" -> "classified"
      [] rq.pc = "assemble" -> "guided"
      [] rq.pc = "done" /\ rq.response.status = 200 -> "responded"
      [] OTHER -> "error"

\* ------------------------------------------------------------------------
\* Properties
\* ------------------------------------------------------------------------
Requests == {req[r] : r \in Req}

Done(rq) == rq.pc = "done"

\* Declared content types that are not image types.
DeclaredNonImage == {TextPlain, ImageNoSlash, EmptyType}

\* C1: a request whose declared content type is not an image type never
\* gets past the content-type check, reads nothing, calls neither the
\* classifier nor the guidance generator, and ends with status 400,
\* whether or not the classifier handle is initialized.
C1_NonImageRejected ==
    \A rq \in Requests :
        rq.pc # "idle" /\ rq.content_type \in DeclaredNonImage =>
            /\ rq.pc \in {"content_type", "done"}
            /\ rq.reads = 0
            /\ rq.classifierCalls = 0
            /\ rq.guidanceCalls = 0
            /\ Done(rq) => /\ rq.response.status = 400
                           /\ rq.response.by = "handler"

C1_Witness ==
    \E rq \in Requests :
        /\ Done(rq)
        /\ rq.content_type = ImageNoSlash
        /\ rq.response.status = 400
        /\ classifier = "pipeline"

\* C3: when classifier initialization fails the import still ends in the
\* serving phase with the handle uninitialized, and every request with
\* an image content type is then rejected with status 500 "Model not
\* loaded" without a read, a decode, a classifier call or a guidance call.
C3_NotLoadedState ==
    phase = "serving" /\ classifier = None =>
        \A rq \in Requests :
            rq.pc # "idle" /\ rq.content_type = ImagePng =>
                /\ rq.pc \in {"content_type", "model", "done"}
                /\ rq.reads = 0
                /\ rq.image = "none"
                /\ rq.classifierCalls = 0
                /\ rq.guidanceCalls = 0
                /\ Done(rq) =>
                      rq.response = [status |-> 500, by |-> "handler",
                                     detail |-> <<"Model not loaded. Please wait.">>,
                                     body |-> NoBody]

C3_ModelNotLoaded ==
    /\ []C3_NotLoadedState
    /\ [][phase = "mounted" => phase' = "serving"]_vars

C3_Witness ==
    /\ phase = "serving"
    /\ classifier = None
    /\ \E rq \in Requests :
          Done(rq) /\ rq.content_type = ImagePng /\ rq.response.status = 500

\* C6: the body of every GET /health answer has status "healthy" and a
\* clip_model flag that tells whether the handle is initialized now; the
\* route answers in every serving state in which the loop is free, and
\* answering changes nothing but the answer itself.
C6_HealthState ==
    /\ lastGet.route = "/health" =>
          /\ phase = "serving"
          /\ lastGet.status = 200
          /\ lastGet.content.status = "healthy"
          /\ lastGet.content.clip_model = (classifier = "pipeline")
    /\ phase = "serving" /\ running = NoTask => ENABLED Health

C6_HealthReportsModel ==
    /\ []C6_HealthState
    /\ [][lastGet'.route = "/health" /\ lastGet' # lastGet =>
            UNCHANGED <<environ, phase, GEMINI_API_KEY, classifier, running, req>>]_vars

C6_Witness ==
    /\ lastGet.route = "/health"
    /\ lastGet.content.clip_model = FALSE
    /\ classifier = None

\* C7: without the credential in the environment the import aborts at
\* the credential check: the classifier is never loaded, the serving
\* phase is never reached and no route is answered.  So wherever the
\* service serves, the credential is set and /health reports gemini_api
\* true.
C7_CredentialRequired ==
    /\ environ.GEMINI_API_KEY = None =>
          /\ phase \in {"import", "aborted"}
          /\ classifier = None
          /\ lastGet.route = "none"
          /\ \A rq \in Requests : rq.pc = "idle"
    /\ phase = "serving" =>
          /\ environ.GEMINI_API_KEY = "secret-key"
          /\ GEMINI_API_KEY = "secret-key"
    /\ lastGet.route = "/health" => lastGet.content.gemini_api = TRUE

C7_Witness ==
    /\ environ.GEMINI_API_KEY = None
    /\ phase = "aborted"

\* C10: the classifier handle changes only in the load step of the
\* import, before any request exists; no step of the serving phase,
\* whatever the interleaving of requests, changes it.
C10_HandleWrittenOnce ==
    [][/\ phase = "serving" => classifier' = classifier
       /\ classifier' # classifier =>
             /\ phase = "mounted"
             /\ classifier = None
             /\ \A r \in Req : req[r].pc = "idle"]_vars

C10_Witness ==
    /\ classifier = "pipeline"
    /\ \E r1, r2 \in Req :
          /\ req[r1].pc = "read"
          /\ Done(req[r2])
          /\ req[r2].response.status = 500

\* The category code and its uppercase spelling, per description.
ExpectedCategory ==
    (DryDesc :> [code |-> Dry, upper |-> <<"D", "R", "Y">>])
 @@ (WetDesc :> [code |-> Wet, upper |-> <<"W", "E", "T">>])
 @@ (EDesc :> [code |-> EWaste, upper |-> <<"E", "-", "W", "A", "S", "T", "E">>])
 @@ (HazDesc :> [code |-> Hazardous,
                 upper |-> <<"H", "A", "Z", "A", "R", "D", "O", "U", "S">>])

Tenths(percent) == percent[1] * 10 + percent[2]

\* C5: for every ranking of the four descriptions, the 200 response names
\* the uppercase code of the top description, carries the Dustbin Info
\* of that category, and lists four predictions in the classifier's
\* descending order, the first being that category; a top description
\* "wet organic..." gives "WET" and "Green Dustbin".
C5_ResponseMatchesTop ==
    \A rq \in Requests :
        Done(rq) /\ rq.response.status = 200 =>
            LET body == rq.response.body
                top == ExpectedCategory[rq.predictions[1].label]
                info == DUSTBIN_INFO[top.code]
            IN  /\ rq.predictions \in ClosedSetResults(WASTE_CATEGORIES)
                /\ body.waste_category = top.upper
                /\ body.dustbin = [color |-> info.color, type |-> info.bin,
                                   hindi_name |-> info.hindi]
                /\ body.examples = info.examples
                /\ Len(body.all_predictions) = 4
                /\ \A i \in 1..4 :
                      /\ body.all_predictions[i].label =
                            ExpectedCategory[rq.predictions[i].label].upper
                               \o <<" WASTE">>
                      /\ Tenths(body.all_predictions[i].score) = rq.predictions[i].score
                /\ \A i \in 1..3 :
                      Tenths(body.all_predictions[i].score)
                         >= Tenths(body.all_predictions[i + 1].score)
                /\ body.all_predictions[1].label = top.upper \o <<" WASTE">>
                /\ rq.predictions[1].label = WetDesc =>
                      /\ body.waste_category = <<"W", "E", "T">>
                      /\ body.dustbin.type = "Green Dustbin"

C5_Witness ==
    \E rq \in Requests :
        /\ Done(rq)
        /\ rq.response.status = 200
        /\ rq.predictions[1].label = WetDesc
        /\ rq.predictions[4].label = DryDesc
        /\ rq.response.body.dustbin.type = "Green Dustbin"

\* C4: whatever exception a step of the handler raises, content-type
\* validation with a missing content type included, the handler itself
\* answers with status 500 and the exception's message.
C4_EveryExceptionCaught ==
    \A rq \in Requests :
        Done(rq) =>
            /\ rq.response.by = "handler"
            /\ rq.response.status \in {200, 400, 500}
            /\ rq.response.status = 200 <=> rq.response.body.success
            /\ rq.content_type = NoContentType =>
                  /\ rq.response.status = 500
                  /\ Len(rq.response.detail) > 1

GeminiFailures == {"generate_content raises", "response.text raises"}

\* C2: when the text-generation call fails, at the call or at the read
\* of its text, the request goes on with the non-empty fallback text of
\* its category and ends with status 200 and that text as ai_guidance.
C2_GuidanceFallback ==
    \A rq \in Requests :
        rq.gemini \in GeminiFailures =>
            LET top == ExpectedCategory[rq.predictions[1].label]
            IN  /\ rq.pc \in {"assemble", "done"}
                /\ rq.category = top.code
                /\ rq.guidance = FallbackGuidance(top.code)
                /\ Len(rq.guidance) > 0
                /\ SubSeq(rq.guidance, 2, 1 + Len(top.upper)) = top.upper
                /\ Done(rq) => /\ rq.response.status = 200
                               /\ rq.response.body.ai_guidance = rq.guidance

C2_Witness ==
    \E rq \in Requests :
        /\ Done(rq)
        /\ rq.gemini = "response.text raises"
        /\ rq.response.status = 200
        /\ rq.response.body.ai_guidance = FallbackGuidance(EWaste)

\* The moves of section 4.4, and the release of a finished request.
AllowedMoves ==
    { <<"none", "received">>, <<"received", "validated">>,
      <<"validated", "decoded">>, <<"decoded", "classified">>,
      <<"classified", "guided">>, <<"guided", "responded">>,
      <<"received", "error">>, <<"validated", "error">>,
      <<"decoded", "error">>, <<"classified", "error">>,
      <<"responded", "none">>, <<"error", "none">> }

C8_StateOrder ==
    \A rq \in Requests :
        /\ rq.classifierCalls <= 1
        /\ rq.guidanceCalls <= 1
        /\ rq.classifierCalls = 1 <=>
              \/ State(rq) \in {"classified", "guided", "responded"}
              \/ State(rq) = "error" /\ rq.image = "RGB"
        /\ rq.guidanceCalls = 1 <=> State(rq) \in {"guided", "responded"}
        /\ rq.guidanceCalls = 1 =>
              rq.category = ExpectedCategory[rq.predictions[1].label].code
        /\ Done(rq) /\ rq.guidanceCalls >= 1 => rq.response.status = 200

\* C8: a request passes received, validated, decoded, classified, guided
\* and responded in that order, one step at a time; the classifier and
\* the guidance generator are each called at most once, guidance only
\* after classification and with the category of its top result; error
\* is entered only from received, validated, decoded or classified, and
\* a request whose guidance was invoked ends responded with status 200.
C8_RequestStateMachine ==
    /\ []C8_StateOrder
    /\ [][\A r \in Req :
            State(req'[r]) # State(req[r]) =>
                <<State(req[r]), State(req'[r])>> \in AllowedMoves]_vars

C8_Witness ==
    \E rq \in Requests :
        /\ State(rq) = "responded"
        /\ rq.classifierCalls = 1
        /\ rq.guidanceCalls = 1
        /\ rq.gemini = "generate_content raises"

\* C9: when the classifier's result holds a description outside the four
\* known ones, at the top rank or below, the request ends with a
\* status-500 error that names the description; it never ends with a 200
\* payload, and an unknown top description stops it before guidance.
C9_UnknownDescriptionFails ==
    \A rq \in Requests :
        (\E i \in 1..Len(rq.predictions) :
            rq.predictions[i].label \notin {DryDesc, WetDesc, EDesc, HazDesc}) =>
            /\ rq.pc \in {"guidance", "assemble", "done"}
            /\ Done(rq) =>
                  rq.response = [status |-> 500, by |-> "handler",
                                 detail |-> <<"Classification failed: ", "'",
                                              UnknownDesc, "'">>,
                                 body |-> NoBody]
            /\ rq.predictions[1].label = UnknownDesc =>
                  Done(rq) /\ rq.guidanceCalls = 0

C9_Witness ==
    \E rq \in Requests :
        /\ Done(rq)
        /\ Len(rq.predictions) = 4
        /\ rq.predictions[3].label = UnknownDesc
        /\ rq.guidanceCalls = 1
        /\ rq.response.status = 500

====
